---- MODULE Spec2Model ----
(***************************************************************************)
(* oggify: model of src/main.rs.                                           *)
(*                                                                         *)
(* main() is one sequential pipeline: parse the command line, check the    *)
(* URL, obtain credentials, connect, fetch the track metadata, pick an     *)
(* Ogg Vorbis file, request the audio key, read the encrypted stream on a  *)
(* pool worker while the main thread spin-waits, decrypt, strip the 0xa7   *)
(* byte header, write output/<id>.ogg, rewrite the comment header, write   *)
(* output/<id>-tagged.ogg, run ffmpeg and remove the two .ogg files.       *)
(* Three things run concurrently: the main thread, the pool worker and     *)
(* the ffmpeg child process.                                               *)
(***************************************************************************)
EXTENDS Integers, Sequences, FiniteSets, TLC

VARIABLES
  pc,               \* position of the main thread in main()
  cli,              \* parsed command line (Cli.group)
  url_input,        \* the URL under work, a sequence of characters
  track_id,         \* capture group 1 of the URL pattern
  cacheOpened,      \* Cache::new was called
  oauthStarted,     \* the OAuth browser flow was started
  session,          \* "none" | "connected" | "failed"
  track,            \* Track metadata, NoTrack before it is fetched
  file_id,          \* the selected audio format, 0 before selection
  key,              \* "unset" | "some" | "none"
  audioOpen,        \* AudioFile::open succeeded
  worker,           \* pool worker: "idle" | "queued" | "read" | "done" | "panicked"
  buffer,           \* bytes read from the encrypted stream
  read_all,         \* Result<usize> of read_to_end
  fetched,          \* the AtomicBool
  decrypted_buffer, \* output of AudioDecrypt
  f_in_ram,         \* the untagged file read back
  new_comment,      \* the CommentHeader passed to replace_comment_header
  f_out,            \* the container returned by replace_comment_header
  fileState,        \* per path: "absent" | "stale" | "partial" | "complete"
  fileData,         \* per path: what this run wrote there
  files0,           \* fileState when the process started
  child,            \* ffmpeg: "none" | "running" | "exit0" | "exit1"
  exitCode,         \* Running, or the process exit code
  panicMsg,         \* NoPanic, or the panic message
  failStage,        \* "" or the pc at which the run was ended early
  log,              \* the stage events of this run, in order
  fetchErr,         \* the audio-fetch failure modes that have occurred
  calls             \* number of calls made to each audio-fetch operation

vars == <<pc, cli, url_input, track_id, cacheOpened, oauthStarted, session,
          track, file_id, key, audioOpen, worker, buffer, read_all, fetched,
          decrypted_buffer, f_in_ram, new_comment, f_out, fileState, fileData,
          files0, child, exitCode, panicMsg, failStage, log, fetchErr, calls>>

cliVars    == <<cli, url_input, track_id>>
authVars   == <<cacheOpened, oauthStarted, session>>
trackVars  == <<track, file_id, key, audioOpen>>
threadVars == <<worker, buffer, read_all, fetched>>
dataVars   == <<decrypted_buffer, f_in_ram, new_comment, f_out>>
fsVars     == <<fileState, fileData, files0>>
exitVars   == <<exitCode, panicMsg, failStage>>
histVars   == <<fetchErr, calls>>

----------------------------------------------------------------------------
(* Bounds of the model.                                                    *)

MaxArtists == 2      \* longest artist list drawn for a track
MaxBody    == 2      \* longest container that follows the stripped header

(* Program constants.                                                      *)

HeaderLen     == 167     \* 0xa7, main.rs:217
ExitOk        == 0       \* main returns
ExitUsage     == 2       \* clap reports a usage error
ExitPanic     == 101     \* a Rust panic in main
Running       == -1      \* the process has not exited
OGG_VORBIS_96  == 96
OGG_VORBIS_160 == 160
OGG_VORBIS_320 == 320
MP3_256        == 256
KeyStream     == 128     \* the cipher modelled as XOR 0x80 of every byte

NoPanic == "none"
NoTrack == [fetched |-> FALSE]
NoContainer == [written |-> FALSE]
NoComment == [vendor |-> "", comment_list |-> <<>>, built |-> FALSE]

None    == [some |-> FALSE]
Some(v) == [some |-> TRUE, val |-> v]

Paths == {"untagged", "tagged", "mp3"}

----------------------------------------------------------------------------
(* The URL pattern  open\.spotify\.com/track/([[:alnum:]]+)                *)

Pattern == <<"o","p","e","n",".","s","p","o","t","i","f","y",".","c","o","m","/","t","r","a","c","k","/">>

Alnum == {"0","1","2","3","4","5","6","7","8","9",
          "a","b","c","d","e","f","g","h","i","j","k","l","m",
          "n","o","p","q","r","s","t","u","v","w","x","y","z",
          "A","B","C","D","E","F","G","H","I","J","K","L","M",
          "N","O","P","Q","R","S","T","U","V","W","X","Y","Z"}

UrlTrack  == <<"h","t","t","p","s",":","/","/","o","p","e","n",".","s","p","o","t","i","f","y",".","c","o","m","/","t","r","a","c","k","/","4","u","L","U","6","h","M","C","?","s","i","=","1">>
UrlNoId   == <<"o","p","e","n",".","s","p","o","t","i","f","y",".","c","o","m","/","t","r","a","c","k","/">>
UrlAlbum  == <<"h","t","t","p","s",":","/","/","o","p","e","n",".","s","p","o","t","i","f","y",".","c","o","m","/","a","l","b","u","m","/","4","u","L","U","6","h","M","C">>
UrlNoDot  == <<"o","p","e","n","x","s","p","o","t","i","f","y",".","c","o","m","/","t","r","a","c","k","/","4","u","L","U">>
UrlSecond == <<"o","p","e","n",".","s","p","o","t","i","f","y",".","c","o","m","/","t","r","a","c","k","/","-","/","o","p","e","n",".","s","p","o","t","i","f","y",".","c","o","m","/","t","r","a","c","k","/","Z","z","9","/","x">>
UrlEmpty  == <<>>

Urls == {UrlTrack, UrlNoId, UrlAlbum, UrlNoDot, UrlSecond, UrlEmpty}

\* The pattern matches at position i: the literal, then one alphanumeric.
MatchAt(url, i) ==
  /\ i + Len(Pattern) <= Len(url)
  /\ \A k \in 1..Len(Pattern) : url[i + k - 1] = Pattern[k]
  /\ url[i + Len(Pattern)] \in Alnum

\* Regex::is_match: an unanchored search.
IsMatch(url) == \E i \in 1..Len(url) : MatchAt(url, i)

\* The greedy run [[:alnum:]]+ that starts at position j.
RECURSIVE AlnumRun(_, _)
AlnumRun(url, j) ==
  IF j <= Len(url) /\ url[j] \in Alnum
  THEN <<url[j]>> \o AlnumRun(url, j + 1)
  ELSE <<>>

\* Regex::captures(..).get(1): group 1 of the leftmost match.
Capture1(url) ==
  LET i == CHOOSE i \in 1..Len(url) :
             MatchAt(url, i) /\ \A j \in 1..(i - 1) : ~MatchAt(url, j)
  IN AlnumRun(url, i + Len(Pattern))

----------------------------------------------------------------------------
(* Strings produced by to_string() and the comment header                  *)

DigitChar(d) == <<"0","1","2","3","4","5","6","7","8","9">>[d + 1]

\* i32::to_string for a non-negative number: its decimal digits.
RECURSIVE to_string(_)
to_string(n) ==
  IF n < 10 THEN <<DigitChar(n)>>
  ELSE to_string(n \div 10) \o <<DigitChar(n % 10)>>

\* CommentHeader::new
CommentHeaderNew == [vendor |-> "", comment_list |-> <<>>, built |-> TRUE]

\* set_vendor
SetVendor(h, v) == [h EXCEPT !.vendor = v]

\* add_tag_single: one more (name, value) entry at the end of the list
AddTagSingle(h, tag, value) ==
  [h EXCEPT !.comment_list = Append(@, <<tag, value>>)]

\* for artist in &artists { new_comment.add_tag_single("artist", ..) }
RECURSIVE AddArtists(_, _)
AddArtists(h, artists) ==
  IF artists = <<>> THEN h
  ELSE AddArtists(AddTagSingle(h, "artist", Head(artists)), Tail(artists))

NewComment_TitleFirst(t) ==
  LET h0 == SetVendor(CommentHeaderNew, "Ogg")
      h1 == AddArtists(h0, t.artists)
      h2 == AddTagSingle(h1, "album", t.album.name)
      h3 == AddTagSingle(h2, "title", t.name)
      h4 == AddTagSingle(h3, "tracknumber", to_string(t.number))
  IN AddTagSingle(h4, "date", to_string(t.album.date.year))

\* main.rs:227-238, the header handed to replace_comment_header
NewComment(t) ==
  LET h0 == SetVendor(CommentHeaderNew, "Ogg")
      h1 == AddArtists(h0, t.artists)
      h2 == AddTagSingle(h1, "album", t.album.name)
      h3 == AddTagSingle(h2, "tracknumber", to_string(t.number))
      h4 == AddTagSingle(h3, "title", t.name)
  IN AddTagSingle(h4, "date", to_string(t.album.date.year))

----------------------------------------------------------------------------
(* The audio payload                                                       *)

\* A payload of the given length whose bytes differ from place to place.
Payload(len) == [i \in 1..len |-> (7 * i + 1) % 256]

PayloadLens == {0, HeaderLen - 1, HeaderLen, HeaderLen + 1, HeaderLen + MaxBody}

\* The stream cipher: every byte XORed with the key stream.
Cipher(bytes) == [i \in 1..Len(bytes) |-> (bytes[i] + KeyStream) % 256]

\* AudioDecrypt: deciphers with a key, passes the bytes through without one.
AudioDecrypt(k, bytes) == IF k = "some" THEN Cipher(bytes) ELSE bytes

\* &decrypted_buffer[0xa7..]
StripHeader(bytes) == SubSeq(bytes, HeaderLen + 1, Len(bytes))

\* files.get(320).or(files.get(160)).or(files.get(96))
PickFormat(files) ==
  IF OGG_VORBIS_320 \in files THEN OGG_VORBIS_320
  ELSE IF OGG_VORBIS_160 \in files THEN OGG_VORBIS_160
  ELSE IF OGG_VORBIS_96 \in files THEN OGG_VORBIS_96
  ELSE 0

SeqsUpTo(S, n) == UNION {[1..k -> S] : k \in 0..n}

Tracks ==
  [fetched : {TRUE},
   artists : SeqsUpTo({"A", "B"}, MaxArtists),
   name    : {"T"},
   number  : {3, 12},
   album   : [name : {"Al"},
              date : {[year |-> 2021, month |-> 5, day |-> 17]}],
   files   : {{}, {MP3_256}, {OGG_VORBIS_96}, {OGG_VORBIS_160, OGG_VORBIS_320}}]

----------------------------------------------------------------------------
Init ==
  /\ pc = "parse_cli"
  /\ cli = [url |-> None, urls |-> None]
  /\ url_input = <<>>
  /\ track_id = <<>>
  /\ cacheOpened = FALSE
  /\ oauthStarted = FALSE
  /\ session = "none"
  /\ track = NoTrack
  /\ file_id = 0
  /\ key = "unset"
  /\ audioOpen = FALSE
  /\ worker = "idle"
  /\ buffer = <<>>
  /\ read_all = [ok |-> TRUE, n |-> 0]
  /\ fetched = FALSE
  /\ decrypted_buffer = <<>>
  /\ f_in_ram = <<>>
  /\ new_comment = NoComment
  /\ f_out = NoContainer
  /\ files0 \in [Paths -> {"absent", "stale"}]
  /\ fileState = files0
  /\ fileData = [p \in Paths |-> <<>>]
  /\ child = "none"
  /\ exitCode = Running
  /\ panicMsg = NoPanic
  /\ failStage = ""
  /\ log = <<>>
  /\ fetchErr = {}
  /\ calls = [op \in {"Track::get", "audio_key", "AudioFile::open", "read_to_end"} |-> 0]

\* A panic on the main thread: the process ends with code 101.
Panic(msg) ==
  /\ pc' = "exit"
  /\ exitCode' = ExitPanic
  /\ panicMsg' = msg
  /\ failStage' = pc

\* A return from main before the end: the process ends with code 0.
Return ==
  /\ pc' = "exit"
  /\ exitCode' = ExitOk
  /\ panicMsg' = panicMsg
  /\ failStage' = pc

Goto(l) == pc' = l /\ UNCHANGED exitVars

Emit(e) == log' = Append(log, e)

----------------------------------------------------------------------------
\* Cli::parse with #[group(required = true, multiple = false)]
ParseCli ==
  /\ pc = "parse_cli"
  /\ \E u \in {None} \cup {Some(x) : x \in Urls}, us \in {None, Some("urls.txt"), Some("-")} :
       /\ cli' = [url |-> u, urls |-> us]
       /\ IF u.some = us.some
          THEN /\ pc' = "exit"
               /\ exitCode' = ExitUsage
               /\ failStage' = pc
               /\ UNCHANGED panicMsg
          ELSE Goto("unwrap_url")
  /\ UNCHANGED <<url_input, track_id, authVars, trackVars, threadVars,
                 dataVars, fsVars, child, log, histVars>>

\* cli.group.url.as_deref().unwrap()
UnwrapUrl ==
  /\ pc = "unwrap_url"
  /\ IF cli.url.some
     THEN url_input' = cli.url.val /\ Goto("check_url")
     ELSE url_input' = url_input
          /\ Panic("called Option::unwrap() on a None value")
  /\ UNCHANGED <<cli, track_id, authVars, trackVars, threadVars,
                 dataVars, fsVars, child, log, histVars>>

CheckUrl_NoEarlyReturn ==
  /\ pc = "check_url"
  /\ IF IsMatch(url_input)
     THEN track_id' = Capture1(url_input) /\ Goto("open_cache")
     ELSE track_id' = track_id
          /\ Panic("called Option::unwrap() on a None value")
  /\ UNCHANGED <<cli, url_input, authVars, trackVars, threadVars,
                 dataVars, fsVars, child, log, histVars>>

\* main.rs:89-99: the pattern check, the early return and the capture
CheckUrl ==
  /\ pc = "check_url"
  /\ IF ~IsMatch(url_input)
     THEN track_id' = track_id /\ Return
     ELSE track_id' = Capture1(url_input) /\ Goto("open_cache")
  /\ UNCHANGED <<cli, url_input, authVars, trackVars, threadVars,
                 dataVars, fsVars, child, log, histVars>>

\* Cache::new(..).unwrap()
OpenCache ==
  /\ pc = "open_cache"
  /\ cacheOpened' = TRUE
  /\ \E ok \in BOOLEAN :
       IF ok THEN Goto("credentials") ELSE Panic("Cache::new failed")
  /\ UNCHANGED <<cliVars, oauthStarted, session, trackVars, threadVars,
                 dataVars, fsVars, child, log, histVars>>

\* cache.credentials().ok_or(..).or_else(|_| OAuth flow).unwrap()
GetCredentials ==
  /\ pc = "credentials"
  /\ \E cached \in BOOLEAN, granted \in BOOLEAN :
       IF cached
       THEN oauthStarted' = oauthStarted /\ Goto("connect")
       ELSE /\ oauthStarted' = TRUE
            /\ IF granted THEN Goto("connect")
               ELSE Panic("OAuth token request failed")
  /\ UNCHANGED <<cliVars, cacheOpened, session, trackVars, threadVars,
                 dataVars, fsVars, child, log, histVars>>

\* session.connect(credentials, true).await, with the return on Err
Connect ==
  /\ pc = "connect"
  /\ \E ok \in BOOLEAN :
       IF ok
       THEN session' = "connected" /\ Goto("parse_id")
       ELSE session' = "failed" /\ Return
  /\ UNCHANGED <<cliVars, cacheOpened, oauthStarted, trackVars, threadVars,
                 dataVars, fsVars, child, log, histVars>>

\* SpotifyUri::from_uri(..).unwrap(), to_id().unwrap(), from_base62(..).unwrap()
ParseId ==
  /\ pc = "parse_id"
  /\ \E ok \in BOOLEAN :
       IF ok THEN Goto("get_track") ELSE Panic("invalid Spotify id")
  /\ UNCHANGED <<cliVars, authVars, trackVars, threadVars,
                 dataVars, fsVars, child, log, histVars>>

\* Track::get(&session, &uri).await.unwrap()
GetTrack ==
  /\ pc = "get_track"
  /\ calls' = [calls EXCEPT !["Track::get"] = @ + 1]
  /\ \/ \E t \in Tracks :
          /\ track' = t
          /\ fetchErr' = fetchErr
          /\ Goto("select_format")
     \/ /\ track' = track
        /\ fetchErr' = fetchErr \cup {"NotFound"}
        /\ Panic("Track::get failed")
  /\ UNCHANGED <<cliVars, authVars, file_id, key, audioOpen, threadVars,
                 dataVars, fsVars, child, log>>

SelectFormat_NoExpect ==
  /\ pc = "select_format"
  /\ file_id' = PickFormat(track.files)
  /\ fetchErr' = IF PickFormat(track.files) = 0
                 THEN fetchErr \cup {"NoSupportedFormat"} ELSE fetchErr
  /\ Goto("request_key")
  /\ UNCHANGED <<cliVars, authVars, track, key, audioOpen, threadVars,
                 dataVars, fsVars, child, log, calls>>

\* main.rs:177-182: the format choice and its expect
SelectFormat ==
  /\ pc = "select_format"
  /\ file_id' = PickFormat(track.files)
  /\ IF PickFormat(track.files) = 0
     THEN /\ fetchErr' = fetchErr \cup {"NoSupportedFormat"}
          /\ Panic("Could not find a OGG_VORBIS format for the track.")
     ELSE /\ fetchErr' = fetchErr
          /\ Goto("request_key")
  /\ UNCHANGED <<cliVars, authVars, track, key, audioOpen, threadVars,
                 dataVars, fsVars, child, log, calls>>

\* main.rs:184-190: an Err is logged and the run goes on with key = None
RequestKey ==
  /\ pc = "request_key"
  /\ calls' = [calls EXCEPT !["audio_key"] = @ + 1]
  /\ \E ok \in BOOLEAN :
       /\ key' = IF ok THEN "some" ELSE "none"
       /\ fetchErr' = IF ok THEN fetchErr ELSE fetchErr \cup {"KeyUnavailable"}
  /\ Goto("open_audio")
  /\ UNCHANGED <<cliVars, authVars, track, file_id, audioOpen, threadVars,
                 dataVars, fsVars, child, log>>

\* AudioFile::open(&session, *file_id, 320).await.unwrap()
OpenAudioFile ==
  /\ pc = "open_audio"
  /\ calls' = [calls EXCEPT !["AudioFile::open"] = @ + 1]
  /\ \E ok \in BOOLEAN :
       IF ok
       THEN audioOpen' = TRUE /\ fetchErr' = fetchErr /\ Goto("scoped")
       ELSE /\ audioOpen' = FALSE
            /\ fetchErr' = fetchErr \cup {"NetworkFailure"}
            /\ Panic("AudioFile::open failed")
  /\ UNCHANGED <<cliVars, authVars, track, file_id, key, threadVars,
                 dataVars, fsVars, child, log>>

----------------------------------------------------------------------------
(* The hand-off between the main thread and the pool worker                *)

\* scope.execute(|| ..): the job is queued for the one worker of the pool
ScopeExecute ==
  /\ pc = "scoped"
  /\ worker' = "queued"
  /\ Goto("spin")
  /\ UNCHANGED <<cliVars, authVars, trackVars, buffer, read_all, fetched,
                 dataVars, fsVars, child, log, histVars>>

\* read_all = encrypted_file.read_to_end(&mut buffer)
WorkerRead ==
  /\ worker = "queued"
  /\ worker' = "read"
  /\ calls' = [calls EXCEPT !["read_to_end"] = @ + 1]
  /\ \E len \in PayloadLens, ok \in BOOLEAN :
       IF ok
       THEN /\ buffer' = Cipher(Payload(len))
            /\ read_all' = [ok |-> TRUE, n |-> len]
            /\ fetchErr' = fetchErr
       ELSE /\ buffer' = SubSeq(Cipher(Payload(len)), 1, len \div 2)
            /\ read_all' = [ok |-> FALSE, n |-> 0]
            /\ fetchErr' = fetchErr \cup {"NetworkFailure"}
  /\ Emit("read_end")
  /\ UNCHANGED <<pc, cliVars, authVars, trackVars, fetched,
                 dataVars, fsVars, child, exitVars>>

\* read_to_end panics inside the job: the store is never reached
WorkerPanic ==
  /\ worker = "queued"
  /\ worker' = "panicked"
  /\ calls' = [calls EXCEPT !["read_to_end"] = @ + 1]
  /\ UNCHANGED <<pc, cliVars, authVars, trackVars, buffer, read_all, fetched,
                 dataVars, fsVars, child, exitVars, log, fetchErr>>

\* fetched.store(true, Ordering::Release)
WorkerStore ==
  /\ worker = "read"
  /\ worker' = "done"
  /\ fetched' = TRUE
  /\ Emit("stored")
  /\ UNCHANGED <<pc, cliVars, authVars, trackVars, buffer, read_all,
                 dataVars, fsVars, child, exitVars, histVars>>

MainSpin_NoLoad ==
  /\ pc = "spin"
  /\ Goto("expect_read")
  /\ Emit("loop_exit")
  /\ UNCHANGED <<cliVars, authVars, trackVars, threadVars,
                 dataVars, fsVars, child, histVars>>

\* while !fetched.load(Ordering::Acquire) {}: the loop is left once the
\* flag reads true; an iteration that reads false changes nothing
MainSpin ==
  /\ pc = "spin"
  /\ fetched
  /\ Goto("expect_read")
  /\ Emit("loop_exit")
  /\ UNCHANGED <<cliVars, authVars, trackVars, threadVars,
                 dataVars, fsVars, child, histVars>>

ExpectReadAll_Ignored ==
  /\ pc = "expect_read"
  /\ Goto("decrypt")
  /\ UNCHANGED <<cliVars, authVars, trackVars, threadVars,
                 dataVars, fsVars, child, log, histVars>>

\* read_all.expect("Cannot read file stream")
ExpectReadAll ==
  /\ pc = "expect_read"
  /\ IF read_all.ok THEN Goto("decrypt")
     ELSE Panic("Cannot read file stream")
  /\ UNCHANGED <<cliVars, authVars, trackVars, threadVars,
                 dataVars, fsVars, child, log, histVars>>

\* AudioDecrypt::new(key, &buffer[..]).read_to_end(..).expect(..)
Decrypt ==
  /\ pc = "decrypt"
  /\ Emit("decrypt")
  /\ \E ok \in BOOLEAN :
       IF ok
       THEN /\ decrypted_buffer' = AudioDecrypt(key, buffer)
            /\ Goto("write_untagged")
       ELSE /\ decrypted_buffer' = decrypted_buffer
            /\ Panic("Cannot decrypt stream")
  /\ UNCHANGED <<cliVars, authVars, trackVars, threadVars,
                 f_in_ram, new_comment, f_out, fsVars, child, histVars>>

----------------------------------------------------------------------------
(* The files under output/ and the transcoder                              *)

SetFile(p, st, data) ==
  /\ fileState' = [fileState EXCEPT ![p] = st]
  /\ fileData' = [fileData EXCEPT ![p] = data]
  /\ UNCHANGED files0

\* std::fs::write(&fname, &decrypted_buffer[0xa7..]).expect(..): the slice
\* is taken first, then the file is created (truncated) and written
WriteUntagged ==
  /\ pc = "write_untagged"
  /\ IF Len(decrypted_buffer) < HeaderLen
     THEN /\ Panic("range start index 167 out of range for slice")
          /\ UNCHANGED <<fsVars, log>>
     ELSE \E outcome \in {"ok", "create_failed", "write_failed"} :
            CASE outcome = "ok" ->
                   /\ SetFile("untagged", "complete", StripHeader(decrypted_buffer))
                   /\ Emit("write_untagged")
                   /\ Goto("open_untagged")
              [] outcome = "create_failed" ->
                   /\ Panic("Cannot write decrypted track")
                   /\ UNCHANGED <<fsVars, log>>
              [] outcome = "write_failed" ->
                   /\ SetFile("untagged", "partial", <<>>)
                   /\ Panic("Cannot write decrypted track")
                   /\ UNCHANGED log
  /\ UNCHANGED <<cliVars, authVars, trackVars, threadVars,
                 dataVars, child, histVars>>

\* File::open(fname).expect(..); std::io::copy(&mut f_in_disk, &mut f_in_ram)
ReadUntagged ==
  /\ pc = "open_untagged"
  /\ \E ok \in BOOLEAN :
       IF ok
       THEN /\ f_in_ram' = fileData["untagged"]
            /\ Emit("read_untagged")
            /\ Goto("build_comment")
       ELSE /\ f_in_ram' = f_in_ram
            /\ Panic("Can't open file")
            /\ UNCHANGED log
  /\ UNCHANGED <<cliVars, authVars, trackVars, threadVars, decrypted_buffer,
                 new_comment, f_out, fsVars, child, histVars>>

\* main.rs:227-244: CommentHeader::new() and the tags of the track
BuildComment ==
  /\ pc = "build_comment"
  /\ new_comment' = NewComment(track)
  /\ Goto("rewrite")
  /\ UNCHANGED <<cliVars, authVars, trackVars, threadVars, decrypted_buffer,
                 f_in_ram, f_out, fsVars, child, log, histVars>>

\* replace_comment_header(f_in, &new_comment).expect("Can't write comments")
ReplaceCommentHeader ==
  /\ pc = "rewrite"
  /\ Emit("rewrite")
  /\ \E ok \in BOOLEAN :
       IF ok
       THEN /\ f_out' = [written |-> TRUE, comment |-> new_comment,
                         stream |-> f_in_ram]
            /\ Goto("save_tagged")
       ELSE /\ f_out' = f_out
            /\ Panic("Can't write comments")
  /\ UNCHANGED <<cliVars, authVars, trackVars, threadVars, decrypted_buffer,
                 f_in_ram, new_comment, fsVars, child, histVars>>

\* File::create(file_out).unwrap(); std::io::copy(&mut f_out, ..).unwrap()
SaveTagged ==
  /\ pc = "save_tagged"
  /\ \E outcome \in {"ok", "create_failed", "write_failed"} :
       CASE outcome = "ok" ->
              /\ SetFile("tagged", "complete", f_out)
              /\ Emit("write_tagged")
              /\ Goto("spawn")
         [] outcome = "create_failed" ->
              /\ Panic("File::create failed")
              /\ UNCHANGED <<fsVars, log>>
         [] outcome = "write_failed" ->
              /\ SetFile("tagged", "partial", <<>>)
              /\ Panic("io::copy failed")
              /\ UNCHANGED log
  /\ UNCHANGED <<cliVars, authVars, trackVars, threadVars,
                 dataVars, child, histVars>>

\* cmd.spawn().expect("Could not run helper program")
SpawnTranscoder ==
  /\ pc = "spawn"
  /\ \E ok \in BOOLEAN :
       IF ok
       THEN child' = "running" /\ Emit("spawn") /\ Goto("wait")
       ELSE child' = child /\ UNCHANGED log
            /\ Panic("Could not run helper program")
  /\ UNCHANGED <<cliVars, authVars, trackVars, threadVars,
                 dataVars, fsVars, histVars>>

\* ffmpeg -y .. output_mp3: the output file is opened at its final path
\* and filled while the process runs
ChildWrite ==
  /\ child = "running"
  /\ fileState["mp3"] \in {"absent", "stale"}
  /\ SetFile("mp3", "partial", <<>>)
  /\ UNCHANGED <<pc, cliVars, authVars, trackVars, threadVars,
                 dataVars, child, exitVars, log, histVars>>

\* ffmpeg ends with status 0 and the finished file
ChildExitOk ==
  /\ child = "running"
  /\ child' = "exit0"
  /\ SetFile("mp3", "complete", fileData["tagged"])
  /\ Emit("child_exit")
  /\ UNCHANGED <<pc, cliVars, authVars, trackVars, threadVars,
                 dataVars, exitVars, histVars>>

\* ffmpeg ends with a non-zero status and leaves what it has written
ChildExitFail ==
  /\ child = "running"
  /\ child' = "exit1"
  /\ Emit("child_exit")
  /\ UNCHANGED <<pc, cliVars, authVars, trackVars, threadVars,
                 dataVars, fsVars, exitVars, histVars>>

WaitChild_NoWait ==
  /\ pc = "wait"
  /\ IF child # "exit1" THEN Goto("rm_tagged")
     ELSE Panic("Helper script returned an error")
  /\ UNCHANGED <<cliVars, authVars, trackVars, threadVars,
                 dataVars, fsVars, child, log, histVars>>

\* assert!(child.wait().expect(..).success(), "Helper script returned an error")
WaitChild ==
  /\ pc = "wait"
  /\ child \in {"exit0", "exit1"}
  /\ IF child = "exit0" THEN Goto("rm_tagged")
     ELSE Panic("Helper script returned an error")
  /\ UNCHANGED <<cliVars, authVars, trackVars, threadVars,
                 dataVars, fsVars, child, log, histVars>>

\* std::fs::remove_file(tagged_ogg_file).expect(..)
RemoveTagged ==
  /\ pc = "rm_tagged"
  /\ \E ok \in BOOLEAN :
       IF ok
       THEN /\ SetFile("tagged", "absent", <<>>)
            /\ Emit("rm_tagged")
            /\ Goto("rm_untagged")
       ELSE /\ Panic("Could not remove tagged ogg file")
            /\ UNCHANGED <<fsVars, log>>
  /\ UNCHANGED <<cliVars, authVars, trackVars, threadVars,
                 dataVars, child, histVars>>

\* std::fs::remove_file(original_ogg_file).expect(..)
RemoveUntagged ==
  /\ pc = "rm_untagged"
  /\ \E ok \in BOOLEAN :
       IF ok
       THEN /\ SetFile("untagged", "absent", <<>>)
            /\ Emit("rm_untagged")
            /\ Goto("done")
       ELSE /\ Panic("Could not remove original ogg file")
            /\ UNCHANGED <<fsVars, log>>
  /\ UNCHANGED <<cliVars, authVars, trackVars, threadVars,
                 dataVars, child, histVars>>

\* info!("Done, written to: {}", output_mp3) and the end of main
Done ==
  /\ pc = "done"
  /\ pc' = "exit"
  /\ exitCode' = ExitOk
  /\ Emit("done")
  /\ UNCHANGED <<panicMsg, failStage, cliVars, authVars, trackVars,
                 threadVars, dataVars, fsVars, child, histVars>>

MainStep ==
  \/ ParseCli
  \/ UnwrapUrl
  \/ CheckUrl
  \/ OpenCache
  \/ GetCredentials
  \/ Connect
  \/ ParseId
  \/ GetTrack
  \/ SelectFormat
  \/ RequestKey
  \/ OpenAudioFile
  \/ ScopeExecute
  \/ MainSpin
  \/ ExpectReadAll
  \/ Decrypt
  \/ WriteUntagged
  \/ ReadUntagged
  \/ BuildComment
  \/ ReplaceCommentHeader
  \/ SaveTagged
  \/ SpawnTranscoder
  \/ WaitChild
  \/ RemoveTagged
  \/ RemoveUntagged
  \/ Done

WorkerStep == WorkerRead \/ WorkerPanic \/ WorkerStore

ChildStep == ChildWrite \/ ChildExitOk \/ ChildExitFail

Next == MainStep \/ WorkerStep \/ ChildStep

Spec == Init /\ [][Next]_vars

\* Every thread and the child process keep being scheduled.
FairSpec ==
  /\ Init /\ [][Next]_vars
  /\ WF_vars(MainStep) /\ WF_vars(WorkerStep) /\ WF_vars(ChildStep)
----------------------------------------------------------------------------
(* Vocabulary of the properties                                            *)

Occurred(e) == \E i \in 1..Len(log) : log[i] = e

Pos(e) == CHOOSE i \in 1..Len(log) : log[i] = e

\* event b has happened only after event a
Before(a, b) == Occurred(b) => (Occurred(a) /\ Pos(a) < Pos(b))

Success == pc = "exit" /\ Occurred("done")

LaterStages == {"decrypt", "write_untagged", "rewrite", "spawn"}

\* the URL has the literal followed by an alphanumeric somewhere in it
ContainsTrackPattern(url) ==
  \E i \in 1..Len(url) :
    LET j == i + Len(Pattern) - 1
    IN /\ j < Len(url)
       /\ SubSeq(url, i, j) = Pattern
       /\ url[j + 1] \in Alnum

DigitValue(c) == CHOOSE d \in 0..9 : DigitChar(d) = c

RECURSIVE DecimalValue(_)
DecimalValue(str) ==
  IF Len(str) = 0 THEN 0
  ELSE 10 * DecimalValue(SubSeq(str, 1, Len(str) - 1)) + DigitValue(str[Len(str)])

\* a canonical decimal numeral: digits only, no leading zero
IsDecimalOf(str, n) ==
  /\ Len(str) >= 1
  /\ \A i \in 1..Len(str) : \E d \in 0..9 : DigitChar(d) = str[i]
  /\ (Len(str) > 1 => str[1] # "0")
  /\ DecimalValue(str) = n

FetchStageErrors == {"Cannot read file stream", "Cannot decrypt stream"}

----------------------------------------------------------------------------
\* C1: when a run that has created a temp file ends, by success or by a
\* terminal failure, neither output/<id>.ogg nor output/<id>-tagged.ogg
\* exists any more.
C1_TempFilesRemoved ==
  (pc = "exit" /\ (Occurred("write_untagged") \/ fileState["untagged"] = "partial"))
    => (fileState["untagged"] = "absent" /\ fileState["tagged"] = "absent")

\* C2: the exit code is 0 exactly when the track was fetched, tagged and
\* transcoded; every stage failure ends the process with a non-zero code.
C2_ExitCodeZeroIffSuccess ==
  pc = "exit" => ((exitCode = ExitOk) <=> Success)

C4_FinalOutputAtomic ==
  /\ (fileState["mp3"] \in {"partial", "complete"}) => Success
  /\ (pc = "exit" /\ ~Success) => fileState["mp3"] = files0["mp3"]

\* C5: with exactly one of --url and --urls the tool runs the single-track
\* operation; --urls alone does not crash it.
C5_EitherSelectorRuns ==
  (cli.url.some # cli.urls.some /\ pc \notin {"parse_cli", "unwrap_url"})
    => (failStage # "unwrap_url" /\ url_input # <<>>)

\* C6: a URL without a match of the track pattern ends the run as a user
\* error: no panic, no credential lookup or OAuth flow, no session, nothing
\* fetched, no file created or removed.
C6_NonMatchingUrlIsUserError ==
  (cli.url.some /\ ~cli.urls.some
     /\ pc \notin {"parse_cli", "unwrap_url", "check_url"}
     /\ ~ContainsTrackPattern(url_input))
    => /\ pc = "exit"
       /\ failStage = "check_url"
       /\ panicMsg = NoPanic
       /\ exitCode # ExitPanic
       /\ ~cacheOpened
       /\ ~oauthStarted
       /\ session = "none"
       /\ track = NoTrack
       /\ \A op \in DOMAIN calls : calls[op] = 0
       /\ worker = "idle"
       /\ child = "none"
       /\ fileState = files0
       /\ log = <<>>

C6_UrlRejected ==
  /\ pc = "exit"
  /\ failStage = "check_url"
  /\ url_input = UrlNoDot
  /\ files0["mp3"] = "stale"

\* C7: the comment header has the vendor "Ogg" and exactly n + 4 tags: the
\* n artists in their order, then album, tracknumber (decimal), title and
\* date (the year), and nothing else.
C7_TagFieldMapping ==
  (new_comment.built /\ Len(track.artists) >= 1) =>
    LET n    == Len(track.artists)
        tags == new_comment.comment_list
    IN /\ new_comment.vendor = "Ogg"
       /\ Len(tags) = n + 4
       /\ \A i \in 1..n : tags[i] = <<"artist", track.artists[i]>>
       /\ tags[n + 1] = <<"album", track.album.name>>
       /\ tags[n + 2][1] = "tracknumber"
       /\ IsDecimalOf(tags[n + 2][2], track.number)
       /\ tags[n + 3] = <<"title", track.name>>
       /\ tags[n + 4][1] = "date"
       /\ IsDecimalOf(tags[n + 4][2], track.album.date.year)

C7_TwoArtistsTagged ==
  /\ new_comment.built
  /\ track.artists = <<"B", "A">>
  /\ track.number = 12

\* C8: decryption starts only after the stream was read to its end, the
\* untagged file is read back only after it was written, the transcoder is
\* spawned only after the tagged file was written, and the temp files are
\* removed only after the transcoder has exited.
C8_StagesInSequence ==
  /\ Before("read_end", "loop_exit")
  /\ Before("read_end", "decrypt")
  /\ Occurred("decrypt") => (read_all.ok /\ Len(buffer) = read_all.n)
  /\ Before("decrypt", "write_untagged")
  /\ Before("write_untagged", "read_untagged")
  /\ Occurred("read_untagged") => f_in_ram = StripHeader(decrypted_buffer)
  /\ Before("read_untagged", "rewrite")
  /\ Before("rewrite", "write_tagged")
  /\ Before("write_tagged", "spawn")
  /\ Before("spawn", "child_exit")
  /\ Before("child_exit", "rm_tagged")
  /\ Before("child_exit", "rm_untagged")
  /\ Before("rm_tagged", "rm_untagged")

C8_WholePipelineRan ==
  /\ Occurred("rm_untagged")
  /\ Len(f_in_ram) = MaxBody

\* C9: the container written to output/<id>.ogg is the decrypted payload
\* without its first 167 bytes, and a payload shorter than 167 bytes ends
\* the run with an error of the fetch stage and no file written.
C9_HeaderStripped ==
  /\ (Occurred("write_untagged") /\ fileState["untagged"] = "complete") =>
       LET P == decrypted_buffer
           c == fileData["untagged"]
       IN /\ Len(c) + HeaderLen = Len(P)
          /\ \A i \in 1..Len(c) : c[i] = P[i + HeaderLen]
  /\ Occurred("read_untagged") =>
       /\ Len(f_in_ram) + HeaderLen = Len(decrypted_buffer)
       /\ \A i \in 1..Len(f_in_ram) : f_in_ram[i] = decrypted_buffer[i + HeaderLen]
  /\ (pc = "exit" /\ failStage = "write_untagged"
        /\ Len(decrypted_buffer) < HeaderLen)
       => (panicMsg \in FetchStageErrors /\ fileState = files0)

\* C10: the main thread leaves the wait loop only after the worker has
\* stored its result, and it does leave the loop whenever the worker's job
\* has ended, also when the job ended without storing the flag.
C10_HandOffTerminates ==
  /\ [](Occurred("loop_exit") => (worker = "done" /\ Before("stored", "loop_exit")))
  /\ (worker \in {"done", "panicked"}) ~> (pc # "spin")
====
